---- MODULE Spec2Model ----
(***************************************************************************)
(* A model of training-area/test-a.go: a command-line client that          *)
(* authorizes against Google Drive (cached OAuth token or interactive      *)
(* code exchange), resolves or creates a destination folder, uploads one   *)
(* file and lists the catalog.                                             *)
(*                                                                         *)
(* Spec         one run of main(), every external call succeeding or       *)
(*              failing as the environment decides.                        *)
(* SpecResolve  several clients calling getOrCreateFolder against one      *)
(*              shared catalog (sequentially and interleaved).             *)
(* SpecFormat   the pure formatters Comma, FileSizeFormat and the rate     *)
(*              closure of MeasureTransferRate applied to 64-bit inputs.   *)
(* SpecStore    the authorization of several runs of the program, one      *)
(*              after the other, over the same credential cache file.      *)
(***************************************************************************)
EXTENDS Integers, Sequences, FiniteSets, TLC

VARIABLES
    pc,         \* pc[p]: position of client process p in the program
    trace,      \* trace[p]: external effects of p so far (stdout, stdin, files, remote calls)
    dirOK,      \* whether ".credentials" exists or can be created
    cacheFile,  \* content of .credentials/drive-api-cert.json
    handles,    \* open handles on the cache file
    tok,        \* getClient's local tok
    client,     \* credential bound into the *http.Client getClient returned
    folderName, \* the -f flag
    parentId,   \* uploadFile's local parentId
    fParents,   \* uploadFile's f.Parents
    uploadErr,  \* whether uploadFile returned a non-nil error
    catalog,    \* remote Drive catalog: sequence of file records
    retTo,      \* retTo[p]: where getOrCreateFolder returns to
    rname,      \* rname[p]: getOrCreateFolder's folderName argument
    rid,        \* rid[p]: getOrCreateFolder's folderId / return value
    hname,      \* SpecResolve: the folder name every client resolves
    results,    \* SpecResolve: results[p], ids returned to p so far
    fin,        \* SpecFormat: the int64 argument
    fforce,     \* SpecFormat: forceBytes
    fout        \* SpecFormat: result of the formatter applied

vars == <<pc, trace, dirOK, cacheFile, handles, tok, client, folderName,
          parentId, fParents, uploadErr, catalog, retTo, rname, rid, hname,
          results,
          fin, fforce, fout>>

(***************************************************************************)
(* Bounds                                                                  *)
(***************************************************************************)
NumProcs == 2          \* client processes in SpecResolve
MaxCalls == 2          \* getOrCreateFolder calls per client in SpecResolve
MaxInitFolders == 2    \* folders in the initial catalog
MaxRuns == 3           \* runs of the program in SpecStore

Procs == 1..NumProcs
\* the process that runs main() in Spec
Main == CHOOSE p \in Procs : \A q \in Procs : p <= q

Names == {"", "a", "b"}          \* values of the -f flag
FolderTitles == Names \ {""}     \* titles of folders in the initial catalog
UploadTitle == "f"               \* outputTitle of the uploaded file

NoId == 0              \* the empty string as a Drive id
\* time.Time: the instant, and whether a monotonic clock reading is attached
Time(instant, monotonic) == [instant |-> instant, monotonic |-> monotonic]

\* oauth2.Token: the four exported fields and the unexported raw response
Token(access, type, refresh, expiry, raw) ==
    [nil |-> FALSE, access_token |-> access, token_type |-> type,
     refresh_token |-> refresh, expiry |-> expiry, raw |-> raw]

\* nil *oauth2.Token
NoTok == [nil |-> TRUE, access_token |-> "", token_type |-> "",
          refresh_token |-> "", expiry |-> Time("", FALSE), raw |-> FALSE]

\* json.NewEncoder(f).Encode(token): a JSON object, here the set of its
\* <<key, value>> members. token_type and refresh_token are omitempty, the
\* expiry is written as its instant (RFC 3339), raw is unexported.
Encode_without_refresh(t) ==
    {<<"access_token", t.access_token>>}
      \cup (IF t.token_type # "" THEN {<<"token_type", t.token_type>>} ELSE {})
      \cup {<<"expiry", t.expiry.instant>>}

Encode(t) ==
    {<<"access_token", t.access_token>>}
      \cup (IF t.token_type # "" THEN {<<"token_type", t.token_type>>} ELSE {})
      \cup (IF t.refresh_token # "" THEN {<<"refresh_token", t.refresh_token>>} ELSE {})
      \cup {<<"expiry", t.expiry.instant>>}

\* the value of member key of a JSON object, the zero value when it is missing
Member(doc, key) ==
    IF \E kv \in doc : kv[1] = key
      THEN (CHOOSE kv \in doc : kv[1] = key)[2]
      ELSE ""

\* json.NewDecoder(f).Decode(t) into t := &oauth2.Token{}
Decode(doc) ==
    Token(Member(doc, "access_token"), Member(doc, "token_type"),
          Member(doc, "refresh_token"), Time(Member(doc, "expiry"), FALSE), FALSE)

\* contents of the cache file
Absent == [state |-> "absent", doc |-> {}]          \* the file does not exist
Garbage == [state |-> "undecodable", doc |-> {}]    \* exists, not a decodable token (empty, truncated)
JSONFile(doc) == [state |-> "json", doc |-> doc]    \* holds one JSON object

Ev(op, arg) == [op |-> op, arg |-> arg]
Log(p, op, arg) == [trace EXCEPT ![p] = Append(@, Ev(op, arg))]
Did(p, op) == \E i \in 1..Len(trace[p]) : trace[p][i].op = op
Count(p, op) == Cardinality({i \in 1..Len(trace[p]) : trace[p][i].op = op})
First(p, op) == CHOOSE i \in 1..Len(trace[p]) :
                   /\ trace[p][i].op = op
                   /\ \A j \in 1..(i-1) : trace[p][j].op # op

Has(p, op, arg) == \E i \in 1..Len(trace[p]) : trace[p][i].op = op /\ trace[p][i].arg = arg

Goto(p, l) == [pc EXCEPT ![p] = l]

\* the number of the current run of the program
Run == 1 + Count(Main, "exec")

\* the token config.Exchange returns in run n: every exchange yields a fresh
\* access token, with an expiry computed from time.Now()
AccessOf(n) == "access-" \o ToString(n)
WebTokOf(n) == Token(AccessOf(n), "Bearer", "refresh-" \o ToString(n),
                     Time("expiry-" \o ToString(n), TRUE), TRUE)
WebTok == WebTokOf(Run)

\* what a run before the first one stored, and the token read back from it
CachedDoc == Encode(WebTokOf(0))
CachedTok == Decode(CachedDoc)

(***************************************************************************)
(* The remote catalog                                                      *)
(***************************************************************************)
Folder(id, title) == [id |-> id, title |-> title, isFolder |-> TRUE, parents |-> <<>>]
File(id, title, parents) == [id |-> id, title |-> title, isFolder |-> FALSE, parents |-> parents]

\* d.Files.List().Q(title=... and mimeType=folder).MaxResults(1): r.Items,
\* the first folder of that title in the catalog's order, if any
FilesListQ_none(cat, name) == <<>>

FilesListQ(cat, name) ==
    LET hits == {i \in 1..Len(cat) : cat[i].isFolder /\ cat[i].title = name}
    IN  IF hits = {} THEN <<>>
        ELSE <<cat[CHOOSE i \in hits : \A j \in hits : i <= j]>>

\* the id the service assigns to the next inserted file
NewId(cat) == Len(cat) + 1

RECURSIVE InitCatalogsOfLen(_)
InitCatalogsOfLen(n) ==
    IF n = 0 THEN {<<>>}
    ELSE {Append(c, Folder(n, t)) : c \in InitCatalogsOfLen(n - 1), t \in FolderTitles}

InitCatalogs == UNION {InitCatalogsOfLen(n) : n \in 0..MaxInitFolders}

(***************************************************************************)
(* Process termination                                                     *)
(***************************************************************************)
\* log.Fatalf: print the message, os.Exit(1)
Fatalf(p, op, arg, msg) ==
    /\ trace' = [trace EXCEPT ![p] = Append(Append(@, Ev(op, arg)), Ev("Fatalf", msg))]
    /\ pc' = Goto(p, "fatal")

Exited(p) == pc[p] \in {"exit0", "fatal", "panic"}

(***************************************************************************)
(* main, lines 244-252: read and parse client_secret.json                  *)
(***************************************************************************)
main_readSecret ==
    /\ pc[Main] = "main_readSecret"
    /\ \E ok \in BOOLEAN :
         IF ok THEN /\ pc' = Goto(Main, "tokenCacheFile")
                    /\ trace' = Log(Main, "ReadSecret", "ok")
               ELSE Fatalf(Main, "ReadSecret", "err", "Unable to read client secret file")
    /\ UNCHANGED <<dirOK, cacheFile, handles, tok, client, folderName, parentId,
                   fParents, uploadErr, catalog, retTo, rname, rid, hname, results,
                   fin, fforce, fout>>

(***************************************************************************)
(* tokenCacheFile, lines 68-79. user.Current() returns a nil *User with    *)
(* its error, so line 72 dereferences nil. The error of os.MkdirAll is     *)
(* discarded and the returned err is nil, so getClient's check at line 35  *)
(* never fires.                                                            *)
(***************************************************************************)
tokenCacheFile ==
    /\ pc[Main] = "tokenCacheFile"
    /\ \E userOK \in BOOLEAN :
         IF userOK
           THEN /\ trace' = Log(Main, "MkdirAll", IF dirOK THEN "ok" ELSE "err")
                /\ pc' = Goto(Main, "tokenFromFile_open")
           ELSE /\ trace' = Log(Main, "UserCurrent", "err")
                /\ pc' = Goto(Main, "panic")
    /\ UNCHANGED <<dirOK, cacheFile, handles, tok, client, folderName, parentId,
                   fParents, uploadErr, catalog, retTo, rname, rid, hname, results,
                   fin, fforce, fout>>

(***************************************************************************)
(* getClient, lines 38-43: where it continues after tokenFromFile returned *)
(* (err # nil: the interactive flow, then saveToken) and after             *)
(* getTokenFromWeb returned.                                               *)
(***************************************************************************)
getClient_afterLoad_always_web(err) == "getTokenFromWeb_url"

getClient_afterLoad(err) == IF err THEN "getTokenFromWeb_url" ELSE "getClient_Client"

getClient_afterWeb_no_save == "getClient_Client"

getClient_afterWeb == "saveToken_create"

(***************************************************************************)
(* tokenFromFile, lines 83-92                                              *)
(***************************************************************************)
tokenFromFile_open ==
    /\ pc[Main] = "tokenFromFile_open"
    /\ \E ok \in BOOLEAN :
         /\ ok => (dirOK /\ cacheFile # Absent)
         /\ IF ok THEN /\ handles' = handles + 1
                       /\ trace' = Log(Main, "OpenCache", "ok")
                       /\ pc' = Goto(Main, "tokenFromFile_decode")
                  ELSE /\ handles' = handles
                       /\ trace' = Log(Main, "tokenFromFile", "err")
                       /\ pc' = Goto(Main, getClient_afterLoad(TRUE))
    /\ UNCHANGED <<dirOK, cacheFile, tok, client, folderName, parentId,
                   fParents, uploadErr, catalog, retTo, rname, rid, hname, results,
                   fin, fforce, fout>>

\* line 90: the deferred f.Close() is registered after Decode returned and
\* before the return statement, so it runs whatever Decode's error was
tokenFromFile_closes_on_success(err) == ~err

tokenFromFile_closes(err) == TRUE

tokenFromFile_decode ==
    /\ pc[Main] = "tokenFromFile_decode"
    /\ handles' = IF tokenFromFile_closes(cacheFile = Garbage) THEN handles - 1 ELSE handles
    /\ IF cacheFile # Garbage
         THEN /\ tok' = Decode(cacheFile.doc)
              /\ trace' = Log(Main, "tokenFromFile", "ok")
              /\ pc' = Goto(Main, getClient_afterLoad(FALSE))
         ELSE /\ tok' = tok
              /\ trace' = Log(Main, "tokenFromFile", "err")
              /\ pc' = Goto(Main, getClient_afterLoad(TRUE))
    /\ UNCHANGED <<dirOK, cacheFile, client, folderName, parentId,
                   fParents, uploadErr, catalog, retTo, rname, rid, hname, results,
                   fin, fforce, fout>>

(***************************************************************************)
(* getTokenFromWeb, lines 48-64                                            *)
(***************************************************************************)
getTokenFromWeb_url ==
    /\ pc[Main] = "getTokenFromWeb_url"
    /\ trace' = Log(Main, "PrintAuthURL", "stdout")
    /\ pc' = Goto(Main, "getTokenFromWeb_scan")
    /\ UNCHANGED <<dirOK, cacheFile, handles, tok, client, folderName, parentId,
                   fParents, uploadErr, catalog, retTo, rname, rid, hname, results,
                   fin, fforce, fout>>

getTokenFromWeb_scan ==
    /\ pc[Main] = "getTokenFromWeb_scan"
    /\ \E ok \in BOOLEAN :
         IF ok THEN /\ trace' = Log(Main, "Scan", "ok")
                    /\ pc' = Goto(Main, "getTokenFromWeb_exchange")
               ELSE Fatalf(Main, "Scan", "err", "Unable to read authorization code")
    /\ UNCHANGED <<dirOK, cacheFile, handles, tok, client, folderName, parentId,
                   fParents, uploadErr, catalog, retTo, rname, rid, hname, results,
                   fin, fforce, fout>>

\* lines 60-63: log.Fatalf on a failed exchange, else the token is returned
getTokenFromWeb_afterExchange_ignore_err(ok) == getClient_afterWeb

getTokenFromWeb_afterExchange(ok) == IF ok THEN getClient_afterWeb ELSE "fatal"

getTokenFromWeb_exchange ==
    /\ pc[Main] = "getTokenFromWeb_exchange"
    /\ \E ok \in BOOLEAN :
         /\ pc' = Goto(Main, getTokenFromWeb_afterExchange(ok))
         /\ IF ok THEN /\ trace' = Log(Main, "Exchange", "ok")
                       /\ tok' = WebTok
                  ELSE /\ trace' = [trace EXCEPT ![Main] =
                                      Append(Append(@, Ev("Exchange", "err")),
                                             Ev("Fatalf", "Unable to retrieve token from web"))]
                       /\ tok' = tok
    /\ UNCHANGED <<dirOK, cacheFile, handles, client, folderName, parentId,
                   fParents, uploadErr, catalog, retTo, rname, rid, hname, results,
                   fin, fforce, fout>>

(***************************************************************************)
(* saveToken, lines 96-104. os.Create truncates the file; the error of     *)
(* Encode is discarded.                                                    *)
(***************************************************************************)
saveToken_create ==
    /\ pc[Main] = "saveToken_create"
    /\ \E ok \in BOOLEAN :
         /\ ok => dirOK
         /\ IF ok THEN /\ cacheFile' = Garbage
                       /\ handles' = handles + 1
                       /\ trace' = Log(Main, "saveToken", tok)
                       /\ pc' = Goto(Main, "saveToken_encode")
                  ELSE /\ Fatalf(Main, "saveToken", tok, "Unable to cache oauth token")
                       /\ UNCHANGED <<cacheFile, handles>>
    /\ UNCHANGED <<dirOK, tok, client, folderName, parentId,
                   fParents, uploadErr, catalog, retTo, rname, rid, hname, results,
                   fin, fforce, fout>>

saveToken_encode ==
    /\ pc[Main] = "saveToken_encode"
    /\ \E ok \in BOOLEAN :
         /\ cacheFile' = IF ok THEN JSONFile(Encode(tok)) ELSE Garbage
         /\ trace' = Log(Main, "Encode", IF ok THEN "ok" ELSE "err")
    /\ handles' = handles - 1                       \* defer f.Close()
    /\ pc' = Goto(Main, "getClient_Client")
    /\ UNCHANGED <<dirOK, tok, client, folderName, parentId,
                   fParents, uploadErr, catalog, retTo, rname, rid, hname, results,
                   fin, fforce, fout>>

(***************************************************************************)
(* getClient, line 43, and main, lines 253-275. drive.New fails only for   *)
(* a nil client, which config.Client never returns.                        *)
(***************************************************************************)
getClient_Client ==
    /\ pc[Main] = "getClient_Client"
    /\ client' = tok
    /\ trace' = Log(Main, "Client", tok)
    /\ pc' = Goto(Main, "uploadFile_open")
    /\ UNCHANGED <<dirOK, cacheFile, handles, tok, folderName, parentId,
                   fParents, uploadErr, catalog, retTo, rname, rid, hname, results,
                   fin, fforce, fout>>

(***************************************************************************)
(* getOrCreateFolder, lines 161-186, for client process p. The query and   *)
(* the insert are two remote requests; other clients may act in between.   *)
(***************************************************************************)
\* lines 163-165: the empty name is answered without a request
IsRootName_never(name) == FALSE

IsRootName(name) == name = ""

\* lines 169-171: log.Fatalf when the query failed
getOrCreateFolder_onQueryErr_create == "getOrCreateFolder_insert"

getOrCreateFolder_onQueryErr == "fatal"

getOrCreateFolder_query(p) ==
    /\ pc[p] = "getOrCreateFolder_query"
    /\ IF IsRootName(rname[p])
         THEN /\ rid' = [rid EXCEPT ![p] = NoId]
              /\ pc' = Goto(p, retTo[p])
              /\ trace' = trace
         ELSE \E ok \in BOOLEAN :
                IF ~ok
                  THEN /\ trace' = [trace EXCEPT ![p] =
                                      Append(Append(@, Ev("FilesListQ", "err")),
                                             Ev("Fatalf", "Unable to retrieve foldername."))]
                       /\ pc' = Goto(p, getOrCreateFolder_onQueryErr)
                       /\ rid' = rid
                  ELSE LET items == FilesListQ(catalog, rname[p])
                       IN  /\ trace' = Log(p, "FilesListQ", "ok")
                           /\ IF Len(items) > 0
                                THEN /\ rid' = [rid EXCEPT ![p] = items[1].id]
                                     /\ pc' = Goto(p, retTo[p])
                                ELSE /\ rid' = rid
                                     /\ pc' = Goto(p, "getOrCreateFolder_insert")
    /\ UNCHANGED <<dirOK, cacheFile, handles, tok, client, folderName, parentId,
                   fParents, uploadErr, catalog, retTo, rname, hname, results,
                   fin, fforce, fout>>

\* the catalog after d.Files.Insert(f).Do() succeeded for a folder titled name
FolderInsert_existing(cat, name) ==
    IF Len(FilesListQ(cat, name)) > 0 THEN cat
    ELSE Append(cat, Folder(NewId(cat), name))

FolderInsert(cat, name) == Append(cat, Folder(NewId(cat), name))

\* lines 179-183. On an error Insert(f).Do() returns a nil *drive.File: the
\* message of line 181 is printed and r.Id at line 183 dereferences nil.
getOrCreateFolder_insert(p) ==
    /\ pc[p] = "getOrCreateFolder_insert"
    /\ \E ok \in BOOLEAN :
         IF ok
           THEN /\ catalog' = FolderInsert(catalog, rname[p])
                /\ rid' = [rid EXCEPT ![p] = catalog'[Len(catalog')].id]
                /\ trace' = Log(p, "FolderInsert", "ok")
                /\ pc' = Goto(p, retTo[p])
           ELSE /\ trace' = Log(p, "FolderInsert", "err")
                /\ pc' = Goto(p, "panic")
                /\ UNCHANGED <<catalog, rid>>
    /\ UNCHANGED <<dirOK, cacheFile, handles, tok, client, folderName, parentId,
                   fParents, uploadErr, retTo, rname, hname, results,
                   fin, fforce, fout>>

(***************************************************************************)
(* uploadFile, lines 188-228                                               *)
(***************************************************************************)
\* lines 191-194 and 197-199: return nil, err, back in main at line 279
uploadFile_onInputErr_continue(next) == next

uploadFile_onInputErr(next) == "main_list"

uploadFile_open ==
    /\ pc[Main] = "uploadFile_open"
    /\ \E ok \in BOOLEAN :
         IF ok THEN /\ trace' = Log(Main, "OpenInput", "ok")
                    /\ pc' = Goto(Main, "uploadFile_stat")
                    /\ uploadErr' = uploadErr
               ELSE /\ trace' = Log(Main, "OpenInput", "err")
                    /\ pc' = Goto(Main, uploadFile_onInputErr("uploadFile_stat"))
                    /\ uploadErr' = "err"
    /\ UNCHANGED <<dirOK, cacheFile, handles, tok, client, folderName, parentId,
                   fParents, catalog, retTo, rname, rid, hname, results,
                   fin, fforce, fout>>

\* lines 196-201: Stat, then the call of getOrCreateFolder(d, parentName)
uploadFile_stat ==
    /\ pc[Main] = "uploadFile_stat"
    /\ \E ok \in BOOLEAN :
         IF ok THEN /\ trace' = Log(Main, "StatInput", "ok")
                    /\ rname' = [rname EXCEPT ![Main] = folderName]
                    /\ retTo' = [retTo EXCEPT ![Main] = "uploadFile_start"]
                    /\ pc' = Goto(Main, "getOrCreateFolder_query")
                    /\ uploadErr' = uploadErr
               ELSE /\ trace' = Log(Main, "StatInput", "err")
                    /\ rname' = [rname EXCEPT ![Main] = folderName]
                    /\ retTo' = [retTo EXCEPT ![Main] = "uploadFile_start"]
                    /\ pc' = Goto(Main, uploadFile_onInputErr("getOrCreateFolder_query"))
                    /\ uploadErr' = "err"
    /\ UNCHANGED <<dirOK, cacheFile, handles, tok, client, folderName, parentId,
                   fParents, catalog, rid, hname, results, fin, fforce, fout>>

\* lines 205-208: f.Parents
ParentsOf_root(id) == <<>>

ParentsOf(id) == IF id # NoId THEN <<id>> ELSE <<>>

\* lines 201-209: parentId and the descriptor f
uploadFile_start ==
    /\ pc[Main] = "uploadFile_start"
    /\ parentId' = rid[Main]
    /\ fParents' = ParentsOf(parentId')
    /\ trace' = Log(Main, "StartUpload", "stdout")
    /\ pc' = Goto(Main, "uploadFile_do")
    /\ UNCHANGED <<dirOK, cacheFile, handles, tok, client, folderName,
                   uploadErr, catalog, retTo, rname, rid, hname, results,
                   fin, fforce, fout>>

\* lines 216-227: the resumable insert
uploadFile_do ==
    /\ pc[Main] = "uploadFile_do"
    /\ \E ok \in BOOLEAN :
         IF ok THEN /\ catalog' = Append(catalog, File(NewId(catalog), UploadTitle, fParents))
                    /\ trace' = Log(Main, "Upload", "ok")
                    /\ uploadErr' = "nil"
               ELSE /\ catalog' = catalog
                    /\ trace' = Log(Main, "Upload", "err")
                    /\ uploadErr' = "err"
    /\ pc' = Goto(Main, "main_list")
    /\ UNCHANGED <<dirOK, cacheFile, handles, tok, client, folderName, parentId,
                   fParents, retTo, rname, rid, hname, results, fin, fforce, fout>>

(***************************************************************************)
(* main, lines 277-291: the result of uploadFile is discarded, then the    *)
(* listing                                                                 *)
(***************************************************************************)
main_list ==
    /\ pc[Main] = "main_list"
    /\ \E ok \in BOOLEAN :
         IF ok THEN /\ trace' = Log(Main, "FilesList", "ok")
                    /\ pc' = Goto(Main, "exit0")
               ELSE Fatalf(Main, "FilesList", "err", "Unable to retrieve files.")
    /\ UNCHANGED <<dirOK, cacheFile, handles, tok, client, folderName, parentId,
                   fParents, uploadErr, catalog, retTo, rname, rid, hname, results,
                   fin, fforce, fout>>

(***************************************************************************)
(* Spec: one run of main()                                                 *)
(***************************************************************************)
NoFormat ==
    /\ fin = <<>>
    /\ fforce = FALSE
    /\ fout = <<>>

Init ==
    /\ pc = [p \in Procs |-> IF p = Main THEN "main_readSecret" ELSE "off"]
    /\ trace = [p \in Procs |-> <<>>]
    /\ dirOK \in BOOLEAN
    /\ cacheFile \in IF dirOK THEN {Absent, Garbage, JSONFile(CachedDoc)} ELSE {Absent}
    /\ handles = 0
    /\ tok = NoTok
    /\ client = NoTok
    /\ folderName \in Names
    /\ parentId = NoId
    /\ fParents = <<>>
    /\ uploadErr = "none"
    /\ catalog \in InitCatalogs
    /\ retTo = [p \in Procs |-> "off"]
    /\ rname = [p \in Procs |-> ""]
    /\ rid = [p \in Procs |-> NoId]
    /\ hname = ""
    /\ results = [p \in Procs |-> <<>>]
    /\ NoFormat

Next ==
    \/ main_readSecret
    \/ tokenCacheFile
    \/ tokenFromFile_open
    \/ tokenFromFile_decode
    \/ getTokenFromWeb_url
    \/ getTokenFromWeb_scan
    \/ getTokenFromWeb_exchange
    \/ saveToken_create
    \/ saveToken_encode
    \/ getClient_Client
    \/ uploadFile_open
    \/ uploadFile_stat
    \/ \E p \in Procs : getOrCreateFolder_query(p)
    \/ \E p \in Procs : getOrCreateFolder_insert(p)
    \/ uploadFile_start
    \/ uploadFile_do
    \/ main_list

Spec == Init /\ [][Next]_vars

(***************************************************************************)
(* Properties of one run of main() (Spec)                                  *)
(***************************************************************************)
CacheHit == Has(Main, "tokenFromFile", "ok")
CacheMiss == Has(Main, "tokenFromFile", "err")
Ready == Did(Main, "Client")
InteractiveOps == {"PrintAuthURL", "Scan", "Exchange", "saveToken", "Encode"}

\* C1: once the cache load has succeeded, authorize is at or past the
\* construction of the transport from the cached token, and no authorization
\* URL was printed, no code read from stdin, no exchange made and no save of
\* the cache performed.
C1_CacheHitSkipsInteractiveFlow ==
    CacheHit =>
        /\ \A op \in InteractiveOps : ~Did(Main, op)
        /\ tok = CachedTok
        /\ pc[Main] = "getClient_Client" \/ (Ready /\ client = CachedTok)

C1_Witness == CacheHit /\ Ready /\ pc[Main] = "exit0"

\* C2 (as claimed): after a failed upload transfer the process terminates,
\* so the listing is never requested.
C2_UploadFailureIsFatal ==
    Has(Main, "Upload", "err") => ~Did(Main, "FilesList")

\* C3 (as claimed): when the folder query found nothing and the creation
\* request failed, the run is not aborted: the resolver returns the empty
\* id and the upload goes on without a parent.
C3_CreateFailureDegrades ==
    Has(Main, "FolderInsert", "err") =>
        /\ pc[Main] \notin {"panic", "fatal"} \/ Did(Main, "Upload")
        /\ rid[Main] = NoId

\* C4: on the miss path, when the transport has been produced the exchange
\* succeeded first, then saveToken was called with the exchanged token, and
\* only then the transport was built (from that token).
C4_MissPathOrder ==
    (CacheMiss /\ Ready) =>
        /\ Has(Main, "Exchange", "ok")
        /\ Has(Main, "saveToken", WebTok)
        /\ First(Main, "PrintAuthURL") < First(Main, "Exchange")
        /\ First(Main, "Exchange") < First(Main, "saveToken")
        /\ First(Main, "saveToken") < First(Main, "Client")
        /\ client = WebTok

C4_Witness == CacheMiss /\ Ready /\ pc[Main] = "exit0"

\* C5 (as claimed): Ready on the miss path implies the credential was
\* persisted: a failed create and a failed write both stop the run.
C5_ReadyImpliesPersisted ==
    (CacheMiss /\ Ready) => cacheFile = JSONFile(Encode(WebTok))

\* C8: when the input file could not be opened or its size not determined,
\* uploadFile has returned the error and made no remote request: no folder
\* query, no folder creation, no transfer, and nothing was added to the
\* catalog.
InputFailed == Has(Main, "OpenInput", "err") \/ Has(Main, "StatInput", "err")

C8_InputErrorNoRemoteRequest ==
    InputFailed =>
        /\ uploadErr = "err"
        /\ pc[Main] \in {"main_list", "exit0", "fatal"}
        /\ \A op \in {"FilesListQ", "FolderInsert", "StartUpload", "Upload"} : ~Did(Main, op)
        /\ catalog \in InitCatalogs
        /\ \A i \in 1..Len(catalog) : catalog[i].isFolder
        /\ parentId = NoId /\ fParents = <<>>

C8_Witness == Has(Main, "StatInput", "err") /\ pc[Main] = "exit0"

ExchangeFailed == Has(Main, "Exchange", "err")

\* C12: a rejected code exchange ends the run: the process is in its fatal
\* exit, one code was read and one exchange attempted, saveToken was never
\* called, no transport was produced, and the step of the failure leaves
\* the cache file as it was.
C12_ExchangeFailureFatal ==
    /\ [](ExchangeFailed =>
            /\ pc[Main] = "fatal"
            /\ Count(Main, "Scan") = 1
            /\ Count(Main, "Exchange") = 1
            /\ ~Did(Main, "saveToken") /\ ~Did(Main, "Encode")
            /\ ~Ready /\ client = NoTok
            /\ handles = 0)
    /\ [][ExchangeFailed' => (cacheFile' = cacheFile /\ dirOK' = dirOK)]_vars

C12_Witness == ExchangeFailed /\ cacheFile = Garbage /\ pc[Main] = "fatal"

\* C13 (as claimed): when the credentials directory cannot be created the
\* run ends there: no authorization URL is printed, no code is read, no
\* exchange is made afterwards, and Ready is not reached.
C13_DirFailureFatalAtOnce ==
    Has(Main, "MkdirAll", "err") =>
        /\ \A op \in {"PrintAuthURL", "Scan", "Exchange"} : ~Did(Main, op)
        /\ ~Ready

\* C14: for a non-empty folder name, once the upload has been started the
\* descriptor has exactly one parent, the id the resolver returned, which is
\* a folder of that name in the catalog. If a creation request was issued it
\* was the only one and the folder it created is the only folder of that
\* name (none matched before); if none was issued the parent is the first
\* folder of that name the catalog already held. A successful transfer
\* stores the file under that parent.
FoldersTitled(name) == {i \in 1..Len(catalog) : catalog[i].isFolder /\ catalog[i].title = name}

UploadedFiles == {i \in 1..Len(catalog) : ~catalog[i].isFolder}

C14_ParentIsResolvedFolder ==
    (folderName # "" /\ Did(Main, "StartUpload")) =>
        /\ Has(Main, "FilesListQ", "ok")
        /\ Count(Main, "FilesListQ") = 1
        /\ fParents = <<parentId>>
        /\ parentId = rid[Main]
        /\ \E i \in FoldersTitled(folderName) : catalog[i].id = parentId
        /\ IF Did(Main, "FolderInsert")
             THEN /\ Count(Main, "FolderInsert") = 1
                  /\ Has(Main, "FolderInsert", "ok")
                  /\ Cardinality(FoldersTitled(folderName)) = 1
                  /\ \A i \in FoldersTitled(folderName) :
                        \A j \in 1..Len(catalog) : catalog[j].isFolder => j <= i
             ELSE /\ parentId = FilesListQ(catalog, folderName)[1].id
                  /\ \A j \in 1..Len(catalog) : catalog[j].isFolder => j <= MaxInitFolders
        /\ \A i \in UploadedFiles : catalog[i].parents = <<parentId>>
        /\ Has(Main, "Upload", "ok") => Cardinality(UploadedFiles) = 1

C14_Witness ==
    /\ folderName # ""
    /\ Has(Main, "FolderInsert", "ok")
    /\ Has(Main, "Upload", "ok")
    /\ pc[Main] = "exit0"

\* C15: with an empty folder name the resolver returns the empty id without
\* any query or creation request, the run goes on to the upload (it neither
\* aborts nor records an error there), and the upload is issued with no
\* parent reference.
C15_EmptyNameUploadsToRoot ==
    (folderName = "" /\ Has(Main, "StatInput", "ok")) =>
        /\ ~Did(Main, "FilesListQ") /\ ~Did(Main, "FolderInsert")
        /\ rid[Main] = NoId
        /\ pc[Main] \in {"getOrCreateFolder_query", "uploadFile_start", "uploadFile_do",
                         "main_list", "exit0", "fatal"}
        /\ pc[Main] = "fatal" => Has(Main, "FilesList", "err")
        /\ pc[Main] \in {"getOrCreateFolder_query", "uploadFile_start"} => uploadErr = "none"
        /\ Did(Main, "StartUpload") => (parentId = NoId /\ fParents = <<>>)
        /\ \A i \in 1..Len(catalog) : catalog[i].isFolder \/ catalog[i].parents = <<>>
        /\ \A i \in 1..Len(catalog) : catalog[i].isFolder => i <= MaxInitFolders

C15_Witness ==
    /\ folderName = ""
    /\ Has(Main, "Upload", "ok")
    /\ pc[Main] = "exit0"
    /\ \E i \in UploadedFiles : catalog[i].parents = <<>>

\* C17: no handle on the cache file is open outside tokenFromFile and
\* saveToken: a handle is open only between the successful open and the
\* return of the function that opened it, among which the return after a
\* failed decode, and never once the process has exited.
C17_CacheHandleScoped ==
    /\ handles = IF pc[Main] \in {"tokenFromFile_decode", "saveToken_encode"} THEN 1 ELSE 0
    /\ Exited(Main) => handles = 0
    /\ Did(Main, "tokenFromFile") => (pc[Main] = "saveToken_encode" \/ handles = 0)

C17_Witness ==
    /\ Has(Main, "OpenCache", "ok")
    /\ Has(Main, "tokenFromFile", "err")
    /\ pc[Main] = "getTokenFromWeb_url"
    /\ handles = 0

\* C18: a failed folder query ends the run in the fatal exit with no folder
\* creation, no upload and no listing requested, and the catalog untouched.
C18_QueryFailureFatal ==
    Has(Main, "FilesListQ", "err") =>
        /\ pc[Main] = "fatal"
        /\ folderName # ""
        /\ \A op \in {"FolderInsert", "StartUpload", "Upload", "FilesList"} : ~Did(Main, op)
        /\ Count(Main, "FilesListQ") = 1
        /\ catalog \in InitCatalogs

C18_Witness == Has(Main, "FilesListQ", "err") /\ pc[Main] = "fatal" /\ Ready

(***************************************************************************)
(* SpecStore: the program is run up to MaxRuns times, one run after the    *)
(* other, over the same .credentials directory. Only getClient reads or    *)
(* writes the cache file, so a run is followed up to the return of         *)
(* getClient (or to its exit before that); the next run starts a fresh     *)
(* process: no token, no client, no open handle.                           *)
(***************************************************************************)
store_nextRun ==
    /\ pc[Main] \in {"uploadFile_open", "fatal", "panic"}
    /\ Run < MaxRuns
    /\ pc' = Goto(Main, "main_readSecret")
    /\ trace' = Log(Main, "exec", "main")
    /\ tok' = NoTok
    /\ client' = NoTok
    /\ handles' = 0
    /\ UNCHANGED <<dirOK, cacheFile, folderName, parentId,
                   fParents, uploadErr, catalog, retTo, rname, rid, hname, results,
                   fin, fforce, fout>>

InitStore ==
    /\ Init
    /\ folderName = ""
    /\ catalog = <<>>

NextStore ==
    \/ main_readSecret
    \/ tokenCacheFile
    \/ tokenFromFile_open
    \/ tokenFromFile_decode
    \/ getTokenFromWeb_url
    \/ getTokenFromWeb_scan
    \/ getTokenFromWeb_exchange
    \/ saveToken_create
    \/ saveToken_encode
    \/ getClient_Client
    \/ store_nextRun

SpecStore == InitStore /\ [][NextStore]_vars

\* the saves that got past os.Create, which truncates the file
Truncations ==
    {i \in 1..Len(trace[Main]) :
        /\ trace[Main][i].op = "saveToken"
        /\ ~(i < Len(trace[Main]) /\ trace[Main][i + 1].op = "Fatalf")}

\* the credential of the latest of those saves, if that save has completed
\* with the token written; the nil token otherwise
Saved ==
    IF Truncations = {} THEN NoTok
    ELSE LET i == CHOOSE k \in Truncations : \A j \in Truncations : j <= k
         IN  IF i < Len(trace[Main]) /\ trace[Main][i + 1] = Ev("Encode", "ok")
               THEN trace[Main][i].arg
               ELSE NoTok

SameCredential(a, b) ==
    /\ ~a.nil /\ ~b.nil
    /\ a.access_token = b.access_token
    /\ a.refresh_token = b.refresh_token
    /\ a.token_type = b.token_type
    /\ a.expiry.instant = b.expiry.instant

\* tokenFromFile has just returned, having opened the file
LoadReturned ==
    LET n == Len(trace[Main])
    IN  /\ n > 1
        /\ trace[Main][n].op = "tokenFromFile"
        /\ trace[Main][n - 1] = Ev("OpenCache", "ok")

\* C16: once a save of credential c has completed with c written, and until
\* the next save truncates the file, the file holds the encoding of c, and
\* every load that opens the file returns without error a credential with
\* c's access token, refresh token, expiry and token type, so that getClient
\* goes straight to building the client (the cache-hit path).
C16_SaveLoadRoundTrip ==
    ~Saved.nil =>
        /\ cacheFile = JSONFile(Encode(Saved))
        /\ LoadReturned =>
             /\ trace[Main][Len(trace[Main])].arg = "ok"
             /\ SameCredential(tok, Saved)
             /\ pc[Main] = "getClient_Client"

C16_Witness ==
    /\ Run = 3
    /\ LoadReturned
    /\ SameCredential(Saved, WebTokOf(2))
    /\ SameCredential(tok, Saved)
    /\ tok # Saved

(***************************************************************************)
(* SpecResolve: every client process calls getOrCreateFolder(d, hname) up  *)
(* to MaxCalls times, one call after the other, against the shared         *)
(* catalog; the steps of different clients interleave.                     *)
(***************************************************************************)
resolve_call(p) ==
    /\ pc[p] = "resolve_idle"
    /\ Len(results[p]) < MaxCalls
    /\ rname' = [rname EXCEPT ![p] = hname]
    /\ retTo' = [retTo EXCEPT ![p] = "resolve_ret"]
    /\ pc' = Goto(p, "getOrCreateFolder_query")
    /\ UNCHANGED <<trace, dirOK, cacheFile, handles, tok, client, folderName, parentId,
                   fParents, uploadErr, catalog, rid, hname, results,
                   fin, fforce, fout>>

resolve_ret(p) ==
    /\ pc[p] = "resolve_ret"
    /\ results' = [results EXCEPT ![p] = Append(@, rid[p])]
    /\ pc' = Goto(p, "resolve_idle")
    /\ UNCHANGED <<trace, dirOK, cacheFile, handles, tok, client, folderName, parentId,
                   fParents, uploadErr, catalog, retTo, rname, rid, hname,
                   fin, fforce, fout>>

InitResolve ==
    /\ pc = [p \in Procs |-> "resolve_idle"]
    /\ trace = [p \in Procs |-> <<>>]
    /\ dirOK = TRUE
    /\ cacheFile = Absent
    /\ handles = 0
    /\ tok = NoTok
    /\ client = NoTok
    /\ folderName = ""
    /\ parentId = NoId
    /\ fParents = <<>>
    /\ uploadErr = "none"
    /\ catalog \in InitCatalogs
    /\ retTo = [p \in Procs |-> "off"]
    /\ rname = [p \in Procs |-> ""]
    /\ rid = [p \in Procs |-> NoId]
    /\ hname \in Names
    /\ results = [p \in Procs |-> <<>>]
    /\ NoFormat

NextResolve ==
    \E p \in Procs :
        \/ resolve_call(p)
        \/ getOrCreateFolder_query(p)
        \/ getOrCreateFolder_insert(p)
        \/ resolve_ret(p)

SpecResolve == InitResolve /\ [][NextResolve]_vars

FoldersNamed(name) == {i \in 1..Len(catalog) : catalog[i].isFolder /\ catalog[i].title = name}
Created(p) == Has(p, "FolderInsert", "ok")

\* C6: the get-or-create is not atomic. Whenever two clients have both seen
\* "not found" for the same name and both created, the catalog holds (at
\* least) two folders of that name and the two calls returned different
\* ids; the witness shows that this interleaving is reachable.
C6_RaceCreatesDuplicates ==
    \A p \in Procs : \A q \in Procs \ {p} :
        (Created(p) /\ Created(q) /\ Len(results[p]) >= 1 /\ Len(results[q]) >= 1) =>
            /\ Cardinality(FoldersNamed(hname)) >= 2
            /\ results[p][1] # results[q][1]
            /\ {results[p][1], results[q][1]} \subseteq {catalog[i].id : i \in FoldersNamed(hname)}

C6_Witness ==
    \E p \in Procs : \E q \in Procs \ {p} :
        /\ hname # ""
        /\ Created(p) /\ Created(q)
        /\ Len(results[p]) >= 1 /\ Len(results[q]) >= 1
        /\ results[p][1] # results[q][1]
        /\ Cardinality(FoldersNamed(hname)) = 2

\* C7: for a non-empty name, when no other client has added anything to the
\* catalog, all the calls of one client that returned have returned the same
\* id, and that client issued at most one creation request.
C7_ResolveIdempotent ==
    \A p \in Procs :
        (hname # "" /\ \A q \in Procs \ {p} : ~Did(q, "FolderInsert")) =>
            /\ \A i \in 1..Len(results[p]) : \A j \in 1..Len(results[p]) :
                   results[p][i] = results[p][j]
            /\ \A i \in 1..Len(results[p]) : results[p][i] # NoId
            /\ Count(p, "FolderInsert") <= 1

C7_Witness ==
    \E p \in Procs :
        /\ hname # ""
        /\ \A q \in Procs \ {p} : ~Did(q, "FolderInsert")
        /\ Len(results[p]) >= 2
        /\ Created(p)
        /\ results[p][1] = results[p][2]

(***************************************************************************)
(* int64 values. The model checker's integers are narrower than 64 bits,   *)
(* so an int64 is kept as a sign and a magnitude in base-1000 limbs, most  *)
(* significant first, without leading zero limbs (zero is <<>>).           *)
(***************************************************************************)
MaxInt64Mag == <<9, 223, 372, 36, 854, 775, 807>>
MinInt64Mag == <<9, 223, 372, 36, 854, 775, 808>>
I64(neg, mag) == [neg |-> neg, mag |-> mag]
MinInt64 == I64(TRUE, MinInt64Mag)
MaxInt64 == I64(FALSE, MaxInt64Mag)

RECURSIVE LexLeq(_, _)
LexLeq(a, b) ==
    IF a = <<>> THEN TRUE
    ELSE IF a[1] # b[1] THEN a[1] < b[1]
    ELSE LexLeq(Tail(a), Tail(b))

MagLeq(a, b) == Len(a) < Len(b) \/ (Len(a) = Len(b) /\ LexLeq(a, b))

\* line 110: v = 0 - v, in two's complement (0 - MinInt64 = MinInt64)
Neg64(v) ==
    IF v = MinInt64 THEN MinInt64
    ELSE IF v.mag = <<>> THEN v
    ELSE I64(~v.neg, v.mag)

\* a magnitude without its leading zero limbs
RECURSIVE DropZeroLimbs(_)
DropZeroLimbs(m) ==
    IF m # <<>> /\ m[1] = 0 THEN DropZeroLimbs(Tail(m)) ELSE m

Gt999(v) == ~v.neg /\ Len(v.mag) >= 2                       \* line 116: v > 999
Mod1000(v) == v.mag[Len(v.mag)]                             \* line 117: v%1000, v > 999
Div1000(v) == I64(FALSE, SubSeq(v.mag, 1, Len(v.mag) - 1))  \* line 124: v / 1000, v > 999

(***************************************************************************)
(* Strings are sequences of one-character strings.                         *)
(***************************************************************************)
DigitChars == <<"0", "1", "2", "3", "4", "5", "6", "7", "8", "9">>
DigitChar(d) == DigitChars[d + 1]

\* strconv.FormatInt(n, 10) for 0 <= n <= 9999
FormatInt(n) ==
    IF n < 10 THEN <<DigitChar(n)>>
    ELSE IF n < 100 THEN <<DigitChar(n \div 10), DigitChar(n % 10)>>
    ELSE IF n < 1000 THEN <<DigitChar(n \div 100), DigitChar((n \div 10) % 10), DigitChar(n % 10)>>
    ELSE <<DigitChar(n \div 1000), DigitChar((n \div 100) % 10),
           DigitChar((n \div 10) % 10), DigitChar(n % 10)>>

\* lines 118-123: left-pad a group to three digits
Pad3(s) ==
    IF Len(s) = 2 THEN <<"0">> \o s
    ELSE IF Len(s) = 1 THEN <<"0", "0">> \o s
    ELSE s

\* the decimal digits of a magnitude
RECURSIVE DecimalTail(_)
DecimalTail(mag) ==
    IF mag = <<>> THEN <<>>
    ELSE Pad3(FormatInt(mag[1])) \o DecimalTail(Tail(mag))

Decimal(mag) ==
    IF mag = <<>> THEN <<"0">>
    ELSE FormatInt(mag[1]) \o DecimalTail(Tail(mag))

\* strconv.Itoa(int(v)) and Sprintf("%v", v)
Itoa(v) == (IF v.neg THEN <<"-">> ELSE <<>>) \o Decimal(v.mag)

\* strings.Join(parts[j:], ",") with j counted from 1
RECURSIVE Join(_, _)
Join(parts, j) ==
    IF j > Len(parts) THEN <<>>
    ELSE IF j = Len(parts) THEN parts[j]
    ELSE parts[j] \o <<",">> \o Join(parts, j + 1)

PartsLen == 7     \* line 113: len(parts)

(***************************************************************************)
(* Comma, lines 106-129. A result is [panic, str].                         *)
(***************************************************************************)
RECURSIVE CommaLoop(_, _, _)
CommaLoop(v, parts, j) ==
    IF Gt999(v)
      THEN IF j < 1 THEN [panic |-> TRUE, str |-> <<>>]        \* parts[-1]
           ELSE CommaLoop(Div1000(v),
                          [parts EXCEPT ![j] = Pad3(FormatInt(Mod1000(v)))],
                          j - 1)
      ELSE IF j < 1 THEN [panic |-> TRUE, str |-> <<>>]
           ELSE [panic |-> FALSE,
                 str |-> Join([parts EXCEPT ![j] = Itoa(v)], j)]

Comma(v0) ==
    LET sign == IF v0.neg THEN <<"-">> ELSE <<>>
        v == IF v0.neg THEN Neg64(v0) ELSE v0
        r == CommaLoop(v, [k \in 1..PartsLen |-> <<>>], PartsLen)
    IN  IF r.panic THEN r ELSE [panic |-> FALSE, str |-> sign \o r.str]

(***************************************************************************)
(* FileSizeFormat, lines 131-146, for bytes >= 0. value is the float64:    *)
(* its integer part ip and its fraction fp, both in base-1000 limbs, so    *)
(* value /= 1000 moves the last limb of ip to the front of fp. The model   *)
(* divides exactly; float64 rounding changes the outcome of value > 1000   *)
(* only for bytes just above 1000^6 (see FloatExact) and the outcome of    *)
(* %.1f only at a decimal tie (see TenthsExact), and the inputs of         *)
(* SpecFormat avoid both.                                                  *)
(***************************************************************************)
Units == << <<"B">>, <<"K", "B">>, <<"M", "B">>, <<"G", "B">>, <<"T", "B">>, <<"P", "B">> >>

Float64(bytes) == [ip |-> bytes.mag, fp |-> <<>>]           \* line 139

NonZero(limbs) == \E k \in 1..Len(limbs) : limbs[k] # 0

\* line 141: value > 1000
Gt1000(val) ==
    \/ Len(val.ip) >= 3
    \/ Len(val.ip) = 2 /\ (val.ip # <<1, 0>> \/ NonZero(val.fp))

\* line 142: value /= 1000
DivFloat1000(val) ==
    [ip |-> SubSeq(val.ip, 1, Len(val.ip) - 1),
     fp |-> <<val.ip[Len(val.ip)]>> \o val.fp]

\* lines 141-144; i counts the units passed (0 is "B")
RECURSIVE SizeLoop(_, _)
SizeLoop(val, i) ==
    IF Gt1000(val) THEN SizeLoop(DivFloat1000(val), i + 1)
    ELSE [value |-> val, i |-> i]

\* Sprintf("%.1f", value) for 0 <= value <= 1000
Format1f(val) ==
    LET n == IF val.ip = <<>> THEN 0
             ELSE IF Len(val.ip) = 1 THEN val.ip[1]
             ELSE val.ip[1] * 1000 + val.ip[2]
        f == IF val.fp = <<>> THEN 0 ELSE val.fp[1]
        rest == val.fp # <<>> /\ NonZero(Tail(val.fp))
        d == f \div 100
        r == f % 100
        up == r > 50 \/ (r = 50 /\ rest) \/ (r = 50 /\ ~rest /\ d % 2 = 1)
        tenths == n * 10 + d + (IF up THEN 1 ELSE 0)
    IN  FormatInt(tenths \div 10) \o <<".">> \o <<DigitChar(tenths % 10)>>

\* line 145: units[i] panics (index out of range) when i >= len(units)
FileSizeFormat(bytes, forceBytes) ==
    IF forceBytes
      THEN [panic |-> FALSE, str |-> Itoa(bytes) \o <<" ", "B">>]
      ELSE LET r == SizeLoop(Float64(bytes), 0)
           IN  IF r.i + 1 > Len(Units)
                 THEN [panic |-> TRUE, str |-> <<>>]
                 ELSE [panic |-> FALSE,
                       str |-> Format1f(r.value) \o <<" ">> \o Units[r.i + 1]]

(***************************************************************************)
(* MeasureTransferRate, lines 148-159, for bytes >= 0. elapsedMs is        *)
(* time.Now().Sub(start) in milliseconds; line 152 truncates it to whole   *)
(* seconds. A result is [panic, divzero, str]; an int64 division by zero   *)
(* panics.                                                                 *)
(***************************************************************************)
MaxSeconds == 3        \* longest elapsed time, in seconds

ElapsedMs == {k * 500 : k \in 0..(2 * MaxSeconds)}

Seconds(elapsedMs) == elapsedMs \div 1000                   \* line 152

\* line 153: seconds < 1
RateGuard_negative(seconds) == seconds < 0

RateGuard(seconds) == seconds < 1

\* line 156: bytes / seconds for bytes >= 0, seconds >= 1
RECURSIVE DivLimbs(_, _, _)
DivLimbs(mag, s, carry) ==
    IF mag = <<>> THEN <<>>
    ELSE LET cur == carry * 1000 + mag[1]
         IN  <<cur \div s>> \o DivLimbs(Tail(mag), s, cur % s)

Div64(bytes, seconds) == I64(FALSE, DropZeroLimbs(DivLimbs(bytes.mag, seconds, 0)))

\* lines 154 and 157: Sprintf("%s/s", FileSizeFormat(x, false))
PerSecond(x) ==
    LET r == FileSizeFormat(x, FALSE)
    IN  [panic |-> r.panic, divzero |-> FALSE,
         str |-> IF r.panic THEN <<>> ELSE r.str \o <<"/", "s">>]

MeasureTransferRate(bytes, elapsedMs) ==
    LET seconds == Seconds(elapsedMs)
    IN  IF RateGuard(seconds) THEN PerSecond(bytes)
        ELSE IF seconds = 0 THEN [panic |-> TRUE, divzero |-> TRUE, str |-> <<>>]
        ELSE PerSecond(Div64(bytes, seconds))

(***************************************************************************)
(* SpecFormat: the formatters applied to int64 inputs                      *)
(***************************************************************************)
LimbVals == {0, 1, 42, 999}

RECURSIVE LimbSeqs(_)
LimbSeqs(n) ==
    IF n = 0 THEN {<<>>}
    ELSE {<<l>> \o t : l \in LimbVals, t \in LimbSeqs(n - 1)}

Mags ==
    {m \in UNION {LimbSeqs(n) : n \in 0..PartsLen} :
        /\ m # <<>> => m[1] # 0
        /\ MagLeq(m, MaxInt64Mag)}

FormatInputs ==
    {I64(FALSE, m) : m \in Mags} \cup {I64(TRUE, m) : m \in Mags \ {<<>>}}
        \cup {MaxInt64, MinInt64}

\* float64(bytes) and the divisions are exact enough for the comparisons of
\* line 141 unless 1000^6 < bytes < 1000^6 + 1000
FloatExact(v) ==
    ~(Len(v.mag) = PartsLen /\ SubSeq(v.mag, 1, PartsLen - 1) = <<1, 0, 0, 0, 0, 0>>
        /\ v.mag[PartsLen] # 0)

\* %.1f of the float64 prints the tenth the exact value has unless the
\* value lies on a decimal tie that no float64 holds, or within 10^-9 of a tie
TenthsExact(v) ==
    LET fp == SizeLoop(Float64(v), 0).value.fp
        f == IF fp = <<>> THEN 0 ELSE fp[1]
        low(l) == Len(fp) >= 3 /\ fp[2] = l /\ fp[3] = l
    IN  /\ ~(f % 100 = 50 /\ ~NonZero(Tail(fp)) /\ f \notin {250, 750})
        /\ ~(f % 100 = 50 /\ NonZero(Tail(fp)) /\ low(0))
        /\ ~(f % 100 = 49 /\ low(999))

InitFormat ==
    /\ pc = [p \in Procs |-> IF p = Main THEN "format" ELSE "off"]
    /\ trace = [p \in Procs |-> <<>>]
    /\ dirOK = TRUE
    /\ cacheFile = Absent
    /\ handles = 0
    /\ tok = NoTok
    /\ client = NoTok
    /\ folderName = ""
    /\ parentId = NoId
    /\ fParents = <<>>
    /\ uploadErr = "none"
    /\ catalog = <<>>
    /\ retTo = [p \in Procs |-> "off"]
    /\ rname = [p \in Procs |-> ""]
    /\ rid = [p \in Procs |-> NoId]
    /\ hname = ""
    /\ results = [p \in Procs |-> <<>>]
    /\ fin \in FormatInputs
    /\ fforce = FALSE
    /\ fout = <<>>

apply_Comma ==
    /\ pc[Main] = "format"
    /\ fout' = [fn |-> "Comma", res |-> Comma(fin)]
    /\ pc' = Goto(Main, "formatted")
    /\ UNCHANGED <<trace, dirOK, cacheFile, handles, tok, client, folderName, parentId,
                   fParents, uploadErr, catalog, retTo, rname, rid, hname, results,
                   fin, fforce>>

apply_FileSizeFormat ==
    /\ pc[Main] = "format"
    /\ ~fin.neg
    /\ FloatExact(fin)
    /\ TenthsExact(fin)
    /\ \E force \in BOOLEAN :
         /\ fforce' = force
         /\ fout' = [fn |-> "FileSizeFormat", res |-> FileSizeFormat(fin, force)]
    /\ pc' = Goto(Main, "formatted")
    /\ UNCHANGED <<trace, dirOK, cacheFile, handles, tok, client, folderName, parentId,
                   fParents, uploadErr, catalog, retTo, rname, rid, hname, results,
                   fin>>

\* the closure returned by MeasureTransferRate called elapsedMs after start
apply_MeasureTransferRate ==
    /\ pc[Main] = "format"
    /\ ~fin.neg
    /\ FloatExact(fin)
    /\ TenthsExact(fin)
    /\ \E ms \in ElapsedMs :
         /\ Seconds(ms) >= 1 => /\ FloatExact(Div64(fin, Seconds(ms)))
                                /\ TenthsExact(Div64(fin, Seconds(ms)))
         /\ fout' = [fn |-> "MeasureTransferRate", elapsedMs |-> ms,
                     res |-> MeasureTransferRate(fin, ms)]
    /\ pc' = Goto(Main, "formatted")
    /\ UNCHANGED <<trace, dirOK, cacheFile, handles, tok, client, folderName, parentId,
                   fParents, uploadErr, catalog, retTo, rname, rid, hname, results,
                   fin, fforce>>

NextFormat == apply_Comma \/ apply_FileSizeFormat \/ apply_MeasureTransferRate

SpecFormat == InitFormat /\ [][NextFormat]_vars

(***************************************************************************)
(* Reading a formatted string back                                         *)
(***************************************************************************)
IsDigit(c) == \E d \in 0..9 : DigitChar(d) = c
DigitVal(c) == CHOOSE d \in 0..9 : DigitChar(d) = c
AllDigits(s) == \A k \in 1..Len(s) : IsDigit(s[k])
IsSep(c) == c = ","
NotSep(c) == c # ","
StripSeps(s) == SelectSeq(s, NotSep)

\* the value of at most three digits
Val3(d) ==
    IF Len(d) = 0 THEN 0
    ELSE IF Len(d) = 1 THEN DigitVal(d[1])
    ELSE IF Len(d) = 2 THEN DigitVal(d[1]) * 10 + DigitVal(d[2])
    ELSE DigitVal(d[1]) * 100 + DigitVal(d[2]) * 10 + DigitVal(d[3])

RECURSIVE DigitsToLimbs(_)
DigitsToLimbs(d) ==
    IF Len(d) <= 3 THEN <<Val3(d)>>
    ELSE DigitsToLimbs(SubSeq(d, 1, Len(d) - 3)) \o <<Val3(SubSeq(d, Len(d) - 2, Len(d)))>>

\* the magnitude a string of digits denotes
ParseDigits(d) == DropZeroLimbs(DigitsToLimbs(d))

\* the groups of s between its separators
RECURSIVE Groups(_, _)
Groups(s, cur) ==
    IF s = <<>> THEN <<cur>>
    ELSE IF IsSep(s[1]) THEN <<cur>> \o Groups(Tail(s), <<>>)
    ELSE Groups(Tail(s), Append(cur, s[1]))

\* s is the thousands-grouping of magnitude mag: digits only, a first group
\* of one to three digits, every later group of exactly three, and the
\* digits without the separators denote mag
GroupingOf(s, mag) ==
    LET g == Groups(s, <<>>)
    IN  /\ \A k \in 1..Len(g) : AllDigits(g[k])
        /\ Len(g[1]) \in 1..3
        /\ \A k \in 2..Len(g) : Len(g[k]) = 3
        /\ ParseDigits(StripSeps(s)) = mag

Applied(fn) == fout # <<>> /\ fout.fn = fn

\* C9 (as claimed): for every byte count >= 0 with forceBytes = false,
\* FileSizeFormat returns normally, the text ends in one of the six units,
\* and below PB the number printed is less than 1000 (at most three digits
\* before the decimal point).
C9_UnitAndRange ==
    (Applied("FileSizeFormat") /\ ~fforce) =>
        /\ ~fout.res.panic
        /\ LET str == fout.res.str
               sp == CHOOSE k \in 1..Len(str) : str[k] = " "
               dot == CHOOSE k \in 1..Len(str) : str[k] = "."
               unit == SubSeq(str, sp + 1, Len(str))
           IN  /\ \E u \in 1..Len(Units) : Units[u] = unit
               /\ AllDigits(SubSeq(str, 1, dot - 1))
               /\ unit # Units[Len(Units)] => dot - 1 <= 3

\* C10 (as claimed): for v >= 0, Comma(v) is the grouping of v and reads
\* back as v; for v < 0 it is one "-" followed by the grouping of |v|.
C10_CommaRoundTrip ==
    Applied("Comma") =>
        /\ ~fout.res.panic
        /\ LET str == fout.res.str
           IN  IF fin.neg
                 THEN /\ str # <<>> /\ str[1] = "-"
                      /\ GroupingOf(Tail(str), fin.mag)
                 ELSE GroupingOf(str, fin.mag)

\* mag * s + k for small s and k
RECURSIVE MulAdd(_, _, _)
MulAdd(mag, s, k) ==
    IF mag = <<>> THEN (IF k = 0 THEN <<>> ELSE <<k>>)
    ELSE LET cur == mag[Len(mag)] * s + k
         IN  MulAdd(SubSeq(mag, 1, Len(mag) - 1), s, cur \div 1000) \o <<cur % 1000>>

\* C11: the rate formatter never divides by zero: for every byte count >= 0
\* and every elapsed time, while less than one whole second has elapsed the
\* result is the byte count itself formatted by FileSizeFormat (with "/s"),
\* and the quotient bytes / seconds is formed only for seconds >= 1.
C11_NoDivideByZero ==
    Applied("MeasureTransferRate") =>
        /\ ~fout.res.divzero
        /\ fout.elapsedMs < 1000 =>
               LET r == FileSizeFormat(fin, FALSE)
               IN  /\ fout.res.panic = r.panic
                   /\ ~r.panic => fout.res.str = r.str \o <<"/", "s">>
        /\ fout.elapsedMs >= 1000 =>
               LET sec == Seconds(fout.elapsedMs)
                   q == Div64(fin, sec)
               IN  /\ sec >= 1
                   /\ MagLeq(MulAdd(q.mag, sec, 0), fin.mag)
                   /\ ~MagLeq(MulAdd(q.mag, sec, sec), fin.mag)
                   /\ fout.res = PerSecond(q)

C11_Witness ==
    /\ Applied("MeasureTransferRate")
    /\ fin.mag = <<>>
    /\ fout.elapsedMs = 0
    /\ fout.res.str = <<"0", ".", "0", " ", "B", "/", "s">>

====
